---- MODULE Spec2Model ----
(***************************************************************************)
(* TileGeometryLoader (harp-mapview): the per-tile geometry loading state  *)
(* machine and the build tasks it hands to the shared TaskQueue.           *)
(*                                                                         *)
(* A GeometryKindSet is an ES Set of GeometryKind strings.  It is modelled *)
(* as a record [def, elems]: def = FALSE is the JavaScript value           *)
(* undefined, def = TRUE is a set object with the members elems.  The sets *)
(* stored in m_enabledKinds / m_disabledKinds are objects the loader       *)
(* creates itself (new GeometryKindSet()), so they are never the same      *)
(* reference as an argument of update(); two values are reference-equal    *)
(* (===) only when both are undefined.                                     *)
(***************************************************************************)
EXTENDS Integers, Sequences, FiniteSets, Bags, TLC

\* Bounds of the model.
MaxQueue == 2
NumPayloads == 1
TechniquesPerPayload == 2
MaxPriority == 2
MaxKinds == 2
NumVariants == 3
MaxCachedTiles == 2
MaxLevelOffset == 1

VARIABLES
    m_decodedTile,              \* payload held by the loader, NoPayload = undefined
    m_isFinished,
    m_availableGeometryKinds,
    m_enabledKinds,
    m_disabledKinds,
    m_priority,
    tile,                       \* the owning Tile, as far as the loader reads it
    techniques,                 \* technique.kind of every technique of every payload
    taskQueue,                  \* bag of the descriptors waiting in the TaskQueue
    calls,                      \* calls to collaborators made by the last step
    op,                         \* the last step: name and kind sets
    omvDataSource               \* the OmvDataSource the tiles belong to

vars == <<m_decodedTile, m_isFinished, m_availableGeometryKinds, m_enabledKinds,
          m_disabledKinds, m_priority, tile, techniques, taskQueue, calls, op,
          omvDataSource>>

----------------------------------------------------------------------------
\* Values

NoPayload == 0
Payloads == 1..NumPayloads

KindOrder == <<"line", "area", "label", "building", "all">>
GeometryKind == {KindOrder[i] : i \in 1..Len(KindOrder)}
ArgKinds == {"line"}

Undefined == [def |-> FALSE, elems |-> {}]
GeometryKindSet(S) == [def |-> TRUE, elems |-> S]

\* The kind sets update() is called with, and the (enabled, disabled) pairs.
KindSetArgs == {Undefined} \cup {GeometryKindSet(S) : S \in SUBSET ArgKinds}
KindConfigs ==
    {<<Undefined, Undefined>>, <<GeometryKindSet({}), Undefined>>,
     <<GeometryKindSet(ArgKinds), Undefined>>, <<Undefined, GeometryKindSet(ArgKinds)>>}

\* technique.kind: absent, one GeometryKind, a raw array, or a GeometryKindSet.
KindUndefined == [tag |-> "undefined", kind |-> "", arr |-> <<>>, set |-> {}]
KindSingle(k) == [tag |-> "kind", kind |-> k, arr |-> <<>>, set |-> {}]
KindArray(a) == [tag |-> "array", kind |-> "", arr |-> a, set |-> {}]
KindOfSet(S) == [tag |-> "set", kind |-> "", arr |-> <<>>, set |-> S]

TechniqueNames == <<"fill", "line", "extruded-polygon", "text", "solid-line",
                    "segments", "extruded-line", "labeled-icon", "line-marker",
                    "squares">>

\* The techniques of the decoded payloads, as the decoder delivers them.
TechniqueIndex(p, j) == (p - 1) * TechniquesPerPayload + j
TechniqueName(p, j) ==
    TechniqueNames[((TechniqueIndex(p, j) - 1) % Len(TechniqueNames)) + 1]
DecodedKind(p, j) ==
    CASE TechniqueIndex(p, j) % 4 = 3 -> KindArray(<<"label", "area", "label">>)
      [] TechniqueIndex(p, j) % 4 = 0 -> KindSingle("building")
      [] OTHER -> KindUndefined

ZeroCalls ==
    [disposeTile |-> 0, loadingFinished |-> 0, removeDecodedTile |-> 0,
     processTechniques |-> 0, add |-> 0, reset |-> 0, clear |-> 0,
     initDecodedTile |-> 0, createAllGeometries |-> 0, requestUpdate |-> 0,
     addValue |-> 0, addMessage |-> 0, initPayload |-> NoPayload]

\* The whole mutable world as one record, so that a method is an operator
\* from world to world.  statsEnabled is PerformanceStatistics.instance.enabled
\* as the method reads it: a flag of the recorder, outside the loader, that
\* each call may find set or not.
World(stats) ==
    [m_decodedTile |-> m_decodedTile, m_isFinished |-> m_isFinished,
     m_availableGeometryKinds |-> m_availableGeometryKinds,
     m_enabledKinds |-> m_enabledKinds, m_disabledKinds |-> m_disabledKinds,
     m_priority |-> m_priority, tile |-> tile, techniques |-> techniques,
     taskQueue |-> taskQueue, statsEnabled |-> stats, calls |-> ZeroCalls,
     omvDataSource |-> omvDataSource]

\* The last step of the loader: the method, and the kind sets update() was
\* called with.
Op(name, enabledKinds, disabledKinds) ==
    [name |-> name, enabled |-> enabledKinds, disabled |-> disabledKinds]

Apply(w, name) ==
    /\ m_decodedTile' = w.m_decodedTile
    /\ m_isFinished' = w.m_isFinished
    /\ m_availableGeometryKinds' = w.m_availableGeometryKinds
    /\ m_enabledKinds' = w.m_enabledKinds
    /\ m_disabledKinds' = w.m_disabledKinds
    /\ m_priority' = w.m_priority
    /\ tile' = w.tile
    /\ techniques' = w.techniques
    /\ taskQueue' = w.taskQueue
    /\ calls' = w.calls
    /\ op' = name
    /\ omvDataSource' = w.omvDataSource

----------------------------------------------------------------------------
\* OmvDataSource

\* An optional value is a sequence of at most one member: <<>> is undefined.
getOptionValue(value, default) == IF value = <<>> THEN default ELSE value[1]

\* An OptionsMap as decoder.configure receives it: every key present or absent.
NoOptions ==
    [enableElevationOverlay |-> <<>>, storageLevelOffset |-> <<>>,
     filterDescription |-> <<>>, dataFilter |-> <<>>]

\* The constructor: m_decoderOptions from the parameters.  The decoder holds
\* the arguments of the last configure() it received, cachedTiles is the
\* number of tiles in the tile cache of the data source, tilesDirty is set by
\* mapView.markTilesDirty(this), and calls lists the calls of
\* configureDecoder made by the last method, in their order.
NewOmvDataSource(enableElevationOverlay, storageLevelOffset) ==
    [m_decoderOptions |->
         [enableElevationOverlay |-> (enableElevationOverlay = <<TRUE>>),
          storageLevelOffset |-> getOptionValue(storageLevelOffset, -1)],
     storageLevelOffset |-> getOptionValue(storageLevelOffset, -1),
     decoder |-> [languages |-> <<>>, options |-> <<>>],
     cachedTiles |-> 0,
     tilesDirty |-> FALSE,
     calls |-> <<>>]

\* configureDecoder marking the tiles dirty before the cache is cleared and
\* the decoder configured.
configureDecoderDirtyFirst(d, languages, options) ==
    [d EXCEPT !.tilesDirty = TRUE,
              !.cachedTiles = 0,
              !.decoder = [languages |-> languages, options |-> options],
              !.calls = @ \o <<"markTilesDirty", "clearCache", "decoder.configure">>]

\* configureDecoder(styleSet, definitions, languages, options); every caller
\* passes undefined for styleSet and definitions.
configureDecoder(d, languages, options) ==
    LET cleared == [d EXCEPT !.cachedTiles = 0, !.calls = Append(@, "clearCache")]
        configured ==
            [cleared EXCEPT !.decoder = [languages |-> languages, options |-> options],
                            !.calls = Append(@, "decoder.configure")]
    IN  [configured EXCEPT !.tilesDirty = TRUE, !.calls = Append(@, "markTilesDirty")]

\* connect(), when super.connect() succeeds.
connect(d) ==
    configureDecoder(d, <<>>,
        <<[NoOptions EXCEPT
              !.enableElevationOverlay = <<d.m_decoderOptions.enableElevationOverlay>>,
              !.storageLevelOffset = <<d.m_decoderOptions.storageLevelOffset>>]>>)

removeDataFilter(d) ==
    configureDecoder(d, <<>>,
        <<[NoOptions EXCEPT !.filterDescription = <<"null">>, !.dataFilter = <<"null">>]>>)

setLanguages(d, languages) ==
    IF languages # <<>> THEN configureDecoder(d, languages, <<>>) ELSE d

\* set storageLevelOffset(levelOffset)
setStorageLevelOffset(d, levelOffset) ==
    LET stored == [d EXCEPT !.storageLevelOffset = levelOffset,
                            !.m_decoderOptions.storageLevelOffset = levelOffset]
    IN  configureDecoder(stored, <<>>,
            <<[NoOptions EXCEPT !.storageLevelOffset = <<levelOffset>>]>>)

\* setEnableElevationOverlay without the comparison with the stored option.
setEnableElevationOverlayUnguarded(d, enable) ==
    configureDecoder([d EXCEPT !.m_decoderOptions.enableElevationOverlay = enable],
                     <<>>, <<[NoOptions EXCEPT !.enableElevationOverlay = <<enable>>]>>)

setEnableElevationOverlay(d, enable) ==
    IF d.m_decoderOptions.enableElevationOverlay # enable
    THEN configureDecoder([d EXCEPT !.m_decoderOptions.enableElevationOverlay = enable],
                          <<>>, <<[NoOptions EXCEPT !.enableElevationOverlay = <<enable>>]>>)
    ELSE d

----------------------------------------------------------------------------
\* Geometry kind classification

\* The default kinds with the test for the label techniques left out: POI,
\* line marker and text techniques fall through to the catch-all.
DefaultKindWithoutLabels(name) ==
    IF name = "fill" THEN "area"
    ELSE IF name \in {"line", "solid-line", "segments", "extruded-line"} THEN "line"
    ELSE IF name = "extruded-polygon" THEN "building"
    ELSE "all"

\* The default kind of a technique without a declared kind.
DefaultKind(name) ==
    IF name = "fill" THEN "area"
    ELSE IF name \in {"line", "solid-line", "segments", "extruded-line"} THEN "line"
    ELSE IF name = "extruded-polygon" THEN "building"
    ELSE IF name \in {"labeled-icon", "line-marker", "text"} THEN "label"
    ELSE "all"

ArrayElems(a) == {a[i] : i \in 1..Len(a)}

\* compileGeometryKind() that answers for a raw array without writing the set
\* back into the technique.
compileGeometryKindForgetsArray(name, kind) ==
    IF kind.tag = "undefined" THEN KindSingle(DefaultKind(name))
    ELSE kind

\* technique.kind after compileGeometryKind (which is also its return value).
compileGeometryKind(name, kind) ==
    IF kind.tag = "undefined" THEN KindSingle(DefaultKind(name))
    ELSE IF kind.tag = "array" THEN KindOfSet(ArrayElems(kind.arr))
    ELSE kind

\* The loop body without the branch for a kind set: only single kinds are
\* added to foundSet.
FoundKindsOfSingleOnly(kind) == IF kind.tag = "set" THEN {} ELSE {kind.kind}

\* What one compiled kind adds to foundSet.
FoundKinds(kind) == IF kind.tag = "set" THEN kind.set ELSE {kind.kind}

\* The techniques of payload p after prepareAvailableGeometryKinds compiled them.
CompiledTechniques(techs, p) ==
    [techs EXCEPT ![p] =
        [j \in 1..TechniquesPerPayload |-> compileGeometryKind(TechniqueName(p, j), techs[p][j])]]

\* The techniques of payload p in the order of decodedTile.techniques.
TechniquesOf(techs, p) ==
    [j \in 1..TechniquesPerPayload |-> [name |-> TechniqueName(p, j), kind |-> techs[p][j]]]

\* The loop over the techniques: each one is compiled and its kind, or the
\* members of its kind set, are added to foundSet.
RECURSIVE GatherKinds(_, _)
GatherKinds(ts, foundSet) ==
    IF ts = <<>> THEN foundSet
    ELSE GatherKinds(Tail(ts),
                     foundSet \cup FoundKinds(compileGeometryKind(Head(ts).name, Head(ts).kind)))

prepareAvailableGeometryKinds(techs, p) ==
    GeometryKindSet(GatherKinds(TechniquesOf(techs, p), {}))

----------------------------------------------------------------------------
\* TileGeometryLoader

geometryCreationPending(w) == ~w.m_isFinished /\ w.m_decodedTile # NoPayload

\* Tile.removeDecodedTile: the tile drops its decoded payload.
removeDecodedTile(w) ==
    [w EXCEPT !.tile.decodedTile = NoPayload,
              !.calls.removeDecodedTile = @ + 1]

\* setDecodedTile() that takes the payload without gathering its kinds.
setDecodedTileWithoutKinds(w, decodedTile) == [w EXCEPT !.m_decodedTile = decodedTile]

setDecodedTile(w, decodedTile) ==
    IF decodedTile # NoPayload
    THEN [w EXCEPT !.m_decodedTile = decodedTile,
                   !.m_availableGeometryKinds =
                        prepareAvailableGeometryKinds(w.techniques, decodedTile),
                   !.techniques = CompiledTechniques(w.techniques, decodedTile)]
    ELSE [w EXCEPT !.m_decodedTile = decodedTile]

\* GeometryKindSet.clear() through the ?. operator.
ClearSet(s) == IF s.def THEN GeometryKindSet({}) ELSE s

\* reset() that leaves the available geometry kinds as they are.
resetKeepsAvailableKinds(w) ==
    [w EXCEPT !.m_enabledKinds = ClearSet(@),
              !.m_disabledKinds = ClearSet(@),
              !.m_decodedTile = NoPayload,
              !.m_isFinished = FALSE,
              !.calls.reset = @ + 1]

reset(w) ==
    [w EXCEPT !.m_availableGeometryKinds = ClearSet(@),
              !.m_enabledKinds = ClearSet(@),
              !.m_disabledKinds = ClearSet(@),
              !.m_decodedTile = NoPayload,
              !.m_isFinished = FALSE,
              !.calls.reset = @ + 1]

\* dispose() that also marks the loader finished.
disposeFinishes(w) == [w EXCEPT !.m_decodedTile = NoPayload, !.m_isFinished = TRUE]

\* dispose() that also takes back the finished flag, as reset() does.
disposeClearsFinished(w) == [w EXCEPT !.m_decodedTile = NoPayload, !.m_isFinished = FALSE]

dispose(w) == [w EXCEPT !.m_decodedTile = NoPayload]

\* finish() that forgets to release the payload it holds.
finishKeepsDecodedTile(w) ==
    LET w1 == removeDecodedTile([w EXCEPT !.calls.loadingFinished = @ + 1])
    IN [w1 EXCEPT !.m_isFinished = TRUE]

finish(w) ==
    LET w1 == removeDecodedTile([w EXCEPT !.calls.loadingFinished = @ + 1])
    IN [w1 EXCEPT !.m_decodedTile = NoPayload, !.m_isFinished = TRUE]

\* discardNeedlessTile() that finishes an invisible tile without telling the
\* visible tile set.
discardNeedlessTileNoDisposeTile(w) ==
    IF ~w.tile.isVisible \/ w.tile.disposed
    THEN LET w2 == IF w.statsEnabled
                   THEN [w EXCEPT !.calls.addMessage = @ + 1]
                   ELSE w
         IN [w |-> finish(w2), result |-> TRUE]
    ELSE [w |-> w, result |-> FALSE]

\* discardNeedlessTile() without the branch for a disposed tile.
discardNeedlessTileIgnoresDisposed(w) ==
    IF ~w.tile.isVisible
    THEN LET w1 == [w EXCEPT !.calls.disposeTile = @ + 1]
             w2 == IF w1.statsEnabled
                   THEN [w1 EXCEPT !.calls.addMessage = @ + 1]
                   ELSE w1
         IN [w |-> finish(w2), result |-> TRUE]
    ELSE [w |-> w, result |-> FALSE]

\* discardNeedlessTile() that tests tile.isVisible with the wrong sign, so that
\* only a disposed tile is found needless.
discardNeedlessTileIgnoresInvisible(w) ==
    IF w.tile.disposed
    THEN LET w2 == IF w.statsEnabled
                   THEN [w EXCEPT !.calls.addMessage = @ + 1]
                   ELSE w
         IN [w |-> finish(w2), result |-> TRUE]
    ELSE [w |-> w, result |-> FALSE]

\* discardNeedlessTile() with the finish() of a disposed tile inside the
\* if (stats.enabled) block.
discardNeedlessTileFinishesWithStats(w) ==
    IF ~w.tile.isVisible
    THEN LET w1 == [w EXCEPT !.calls.disposeTile = @ + 1]
             w2 == IF w1.statsEnabled
                   THEN [w1 EXCEPT !.calls.addMessage = @ + 1]
                   ELSE w1
         IN [w |-> finish(w2), result |-> TRUE]
    ELSE IF w.tile.disposed
    THEN [w |-> IF w.statsEnabled
                THEN finish([w EXCEPT !.calls.addMessage = @ + 1])
                ELSE w,
          result |-> TRUE]
    ELSE [w |-> w, result |-> FALSE]

\* Returns the world after the call and the boolean result.
discardNeedlessTile(w) ==
    IF ~w.tile.isVisible
    THEN LET w1 == [w EXCEPT !.calls.disposeTile = @ + 1]
             w2 == IF w1.statsEnabled
                   THEN [w1 EXCEPT !.calls.addMessage = @ + 1]
                   ELSE w1
         IN [w |-> finish(w2), result |-> TRUE]
    ELSE IF w.tile.disposed
    THEN LET w2 == IF w.statsEnabled
                   THEN [w EXCEPT !.calls.addMessage = @ + 1]
                   ELSE w
         IN [w |-> finish(w2), result |-> TRUE]
    ELSE [w |-> w, result |-> FALSE]

\* Object.assign(target, source) with a Set as source: a Set holds its members
\* in an internal slot, it has no own enumerable properties, so nothing is
\* copied and the target is returned as it was.
ObjectAssign(target, source) == target

setGeometryKinds(w, enabledKinds, disabledKinds) ==
    LET e == IF enabledKinds.def
             THEN ObjectAssign(IF w.m_enabledKinds.def THEN w.m_enabledKinds
                               ELSE GeometryKindSet({}), enabledKinds)
             ELSE w.m_enabledKinds
        d == IF disabledKinds.def
             THEN ObjectAssign(IF w.m_disabledKinds.def THEN w.m_disabledKinds
                               ELSE GeometryKindSet({}), disabledKinds)
             ELSE w.m_disabledKinds
    IN [w EXCEPT !.m_enabledKinds = e, !.m_disabledKinds = d]

\* a === b for a stored set and an argument of update(): the stored set is an
\* object of the loader's own making, so only undefined === undefined holds.
SameReference(stored, arg) == ~stored.def /\ ~arg.def

\* Set.prototype.has(value) with a set object as the value: the members are
\* GeometryKind strings, an object is never one of them.
SetHas(set, value) == FALSE

\* compareGeometryKinds() that takes an axis for empty as soon as one of the
\* two sets is empty or undefined (|| for &&).
compareGeometryKindsEitherEmpty(w, enabledKinds, disabledKinds) ==
    LET enabledSame == SameReference(w.m_enabledKinds, enabledKinds)
        disabledSame == SameReference(w.m_disabledKinds, disabledKinds)
        enabledEmpty ==
            \/ (~w.m_enabledKinds.def \/ Cardinality(w.m_enabledKinds.elems) = 0)
            \/ (~enabledKinds.def \/ Cardinality(enabledKinds.elems) = 0)
        disabledEmpty ==
            \/ (~w.m_disabledKinds.def \/ Cardinality(w.m_disabledKinds.elems) = 0)
            \/ (~disabledKinds.def \/ Cardinality(disabledKinds.elems) = 0)
    IN IF enabledSame /\ disabledSame THEN TRUE
       ELSE IF \/ (enabledEmpty /\ disabledEmpty)
               \/ (enabledSame /\ disabledEmpty)
               \/ (disabledSame /\ enabledEmpty) THEN TRUE
       ELSE IF ~enabledEmpty /\ (~enabledKinds.def \/ ~w.m_enabledKinds.def) THEN FALSE
       ELSE IF ~enabledEmpty /\ ~SetHas(enabledKinds, w.m_enabledKinds) THEN FALSE
       ELSE IF ~disabledEmpty /\ (~disabledKinds.def \/ ~w.m_disabledKinds.def) THEN FALSE
       ELSE IF ~disabledEmpty /\ ~SetHas(disabledKinds, w.m_disabledKinds) THEN FALSE
       ELSE TRUE

compareGeometryKinds(w, enabledKinds, disabledKinds) ==
    LET enabledSame == SameReference(w.m_enabledKinds, enabledKinds)
        disabledSame == SameReference(w.m_disabledKinds, disabledKinds)
        enabledEmpty ==
            /\ (~w.m_enabledKinds.def \/ Cardinality(w.m_enabledKinds.elems) = 0)
            /\ (~enabledKinds.def \/ Cardinality(enabledKinds.elems) = 0)
        disabledEmpty ==
            /\ (~w.m_disabledKinds.def \/ Cardinality(w.m_disabledKinds.elems) = 0)
            /\ (~disabledKinds.def \/ Cardinality(disabledKinds.elems) = 0)
    IN IF enabledSame /\ disabledSame THEN TRUE
       ELSE IF \/ (enabledEmpty /\ disabledEmpty)
               \/ (enabledSame /\ disabledEmpty)
               \/ (disabledSame /\ enabledEmpty) THEN TRUE
       ELSE IF ~enabledEmpty /\ (~enabledKinds.def \/ ~w.m_enabledKinds.def) THEN FALSE
       ELSE IF ~enabledEmpty /\ ~SetHas(enabledKinds, w.m_enabledKinds) THEN FALSE
       ELSE IF ~disabledEmpty /\ (~disabledKinds.def \/ ~w.m_disabledKinds.def) THEN FALSE
       ELSE IF ~disabledEmpty /\ ~SetHas(disabledKinds, w.m_disabledKinds) THEN FALSE
       ELSE TRUE

\* The descriptor handed to the queue: prepare bound to the two kind sets.
\* getPriority and isExpired read the loader and the tile when they are called.
Task(enabledKinds, disabledKinds) == [enabled |-> enabledKinds, disabled |-> disabledKinds]

prepareForRender(w, enabledKinds, disabledKinds) ==
    IF w.m_decodedTile = NoPayload THEN finish(w)
    ELSE [w EXCEPT !.taskQueue = @ (+) SetToBag({Task(enabledKinds, disabledKinds)}),
                   !.calls.add = @ + 1]

\* prepare() without the discard check before the build.
prepareWithoutDiscardCheck(w, enabledKinds, disabledKinds) ==
    IF w.m_decodedTile = NoPayload THEN finish(w)
    ELSE LET w1 == [w EXCEPT !.calls.clear = @ + 1,
                             !.calls.initDecodedTile = @ + 1,
                             !.calls.initPayload = w.m_decodedTile,
                             !.calls.createAllGeometries = @ + 1]
             w2 == IF w1.statsEnabled
                   THEN [w1 EXCEPT !.calls.addValue = @ + 7,
                                   !.calls.addMessage = @ + 1]
                   ELSE w1
         IN [finish(w2) EXCEPT !.calls.requestUpdate = @ + 1]

\* prepare() without the sanity check for a missing payload.
prepareWithoutPayloadCheck(w, enabledKinds, disabledKinds) ==
    LET d == discardNeedlessTile(w) IN
    IF d.result THEN d.w
    ELSE LET w1 == [w EXCEPT !.calls.clear = @ + 1,
                             !.calls.initDecodedTile = @ + 1,
                             !.calls.initPayload = w.m_decodedTile,
                             !.calls.createAllGeometries = @ + 1]
             w2 == IF w1.statsEnabled
                   THEN [w1 EXCEPT !.calls.addValue = @ + 7,
                                   !.calls.addMessage = @ + 1]
                   ELSE w1
         IN [finish(w2) EXCEPT !.calls.requestUpdate = @ + 1]

prepare(w, enabledKinds, disabledKinds) ==
    IF w.m_decodedTile = NoPayload THEN finish(w)
    ELSE LET d == discardNeedlessTile(w) IN
         IF d.result THEN d.w
         ELSE LET w1 == [w EXCEPT !.calls.clear = @ + 1,
                                  !.calls.initDecodedTile = @ + 1,
                                  !.calls.initPayload = w.m_decodedTile,
                                  !.calls.createAllGeometries = @ + 1]
                  w2 == IF w1.statsEnabled
                        THEN [w1 EXCEPT !.calls.addValue = @ + 7,
                                        !.calls.addMessage = @ + 1]
                        ELSE w1
              IN [finish(w2) EXCEPT !.calls.requestUpdate = @ + 1]

\* update() without the early return for a finished loader.
updateWithoutFinishedCheck(w, enabledKinds, disabledKinds) ==
    LET d == discardNeedlessTile(w) IN
    IF d.result THEN d.w
    ELSE IF w.tile.loaderFinished /\ w.tile.decodedTile = NoPayload THEN finish(w)
    ELSE LET w1 == IF /\ geometryCreationPending(w)
                      /\ ~compareGeometryKinds(w, enabledKinds, disabledKinds)
                   THEN reset(w)
                   ELSE w
         IN IF ~geometryCreationPending(w1) /\ w1.tile.decodedTile # NoPayload
            THEN LET w2 == [w1 EXCEPT !.calls.processTechniques = @ + 1]
                     w3 == setGeometryKinds(w2, enabledKinds, disabledKinds)
                     w4 == setDecodedTile(w3, w3.tile.decodedTile)
                 IN prepareForRender(w4, enabledKinds, disabledKinds)
            ELSE w1

\* update() that finishes as soon as the tile loader is finished, without
\* looking whether the tile has a decoded payload.
updateIgnoresTilePayload(w, enabledKinds, disabledKinds) ==
    IF w.m_isFinished THEN w
    ELSE LET d == discardNeedlessTile(w) IN
         IF d.result THEN d.w
         ELSE IF w.tile.loaderFinished THEN finish(w)
         ELSE LET w1 == IF /\ geometryCreationPending(w)
                           /\ ~compareGeometryKinds(w, enabledKinds, disabledKinds)
                        THEN reset(w)
                        ELSE w
              IN IF ~geometryCreationPending(w1) /\ w1.tile.decodedTile # NoPayload
                 THEN LET w2 == [w1 EXCEPT !.calls.processTechniques = @ + 1]
                          w3 == setGeometryKinds(w2, enabledKinds, disabledKinds)
                          w4 == setDecodedTile(w3, w3.tile.decodedTile)
                      IN prepareForRender(w4, enabledKinds, disabledKinds)
                 ELSE w1

update(w, enabledKinds, disabledKinds) ==
    IF w.m_isFinished THEN w
    ELSE LET d == discardNeedlessTile(w) IN
         IF d.result THEN d.w
         ELSE IF w.tile.loaderFinished /\ w.tile.decodedTile = NoPayload THEN finish(w)
         ELSE LET w1 == IF /\ geometryCreationPending(w)
                           /\ ~compareGeometryKinds(w, enabledKinds, disabledKinds)
                        THEN reset(w)
                        ELSE w
              IN IF ~geometryCreationPending(w1) /\ w1.tile.decodedTile # NoPayload
                 THEN LET w2 == [w1 EXCEPT !.calls.processTechniques = @ + 1]
                          w3 == setGeometryKinds(w2, enabledKinds, disabledKinds)
                          w4 == setDecodedTile(w3, w3.tile.decodedTile)
                      IN prepareForRender(w4, enabledKinds, disabledKinds)
                 ELSE w1

\* isExpired() that looks at the visibility of the tile only.
isExpiredIgnoresDetached(w) == ~w.tile.isVisible

isExpired(w) == ~w.tile.isVisible \/ w.tile.detached

\* getPriority() that answers with the priority the loader was constructed with.
getPriorityAtConstruction(w) == 0

getPriority(w) == w.m_priority

\* The getPriority of descriptor t, as the queue calls it on world w: the
\* loader's getPriority bound to the loader, whatever the descriptor.
TaskGetPriority(t, w) == getPriority(w)

\* The values the owner sets the priority to.
Priorities == 0..MaxPriority

----------------------------------------------------------------------------
\* Steps

Init ==
    /\ m_decodedTile = NoPayload
    /\ m_isFinished = FALSE
    /\ m_availableGeometryKinds = Undefined
    /\ m_enabledKinds = Undefined
    /\ m_disabledKinds = Undefined
    /\ m_priority = 0
    /\ tile = [isVisible |-> TRUE, disposed |-> FALSE, decodedTile |-> NoPayload,
               loaderFinished |-> FALSE, detached |-> FALSE]
    /\ techniques = [p \in Payloads |-> [j \in 1..TechniquesPerPayload |-> DecodedKind(p, j)]]
    /\ taskQueue = EmptyBag
    /\ calls = ZeroCalls
    /\ op = Op("init", Undefined, Undefined)
    /\ omvDataSource = NewOmvDataSource(<<>>, <<>>)

\* The owner calls update(enabledKinds, disabledKinds).
Update(enabledKinds, disabledKinds, stats) ==
    LET w == update(World(stats), enabledKinds, disabledKinds) IN
    /\ BagCardinality(w.taskQueue) <= MaxQueue
    /\ Apply(w, Op("update", enabledKinds, disabledKinds))

Reset == Apply(reset(World(FALSE)), Op("reset", Undefined, Undefined))

Dispose == Apply(dispose(World(FALSE)), Op("dispose", Undefined, Undefined))

\* The queue without one copy of descriptor t.
Pulled(t) == taskQueue (-) SetToBag({t})

\* The action of descriptor t (prepare bound to its kind sets) is invoked.
Execute(t, stats) ==
    /\ BagIn(t, taskQueue)
    /\ Apply(prepare([World(stats) EXCEPT !.taskQueue = Pulled(t)], t.enabled, t.disabled),
             Op("execute", Undefined, Undefined))

\* The queue finds descriptor t expired and drops it without invoking it.
Drop(t) ==
    /\ BagIn(t, taskQueue)
    /\ Apply([World(FALSE) EXCEPT !.taskQueue = Pulled(t)],
             Op("drop", Undefined, Undefined))

\* TaskQueue.processNext: a descriptor is pulled; it is skipped when its
\* isExpired() is true at that moment, otherwise its action is invoked.  All
\* descriptors of one loader report the same priority, so any may be next.
ProcessNext(t, stats) ==
    /\ BagIn(t, taskQueue)
    /\ IF isExpired(World(stats)) THEN Drop(t) ELSE Execute(t, stats)

\* The action of a descriptor is invoked without asking isExpired() first.
InvokeExecute(t, stats) ==
    /\ BagIn(t, taskQueue)
    /\ isExpired(World(stats))
    /\ Execute(t, stats)

\* The environment of the loader: the tile's decoded payload arrives or is
\* replaced, the tile loader finishes, the tile leaves or enters the view, the
\* tile is disposed, the data source is detached or attached.  These steps are
\* not steps of the loader: calls and op keep describing its last step.
Environment(t) == Apply([World(FALSE) EXCEPT !.tile = t, !.calls = calls], op)

PayloadArrival(p) ==
    /\ tile.decodedTile # p
    /\ Environment([tile EXCEPT !.decodedTile = p])

LoaderFinished ==
    /\ ~tile.loaderFinished
    /\ Environment([tile EXCEPT !.loaderFinished = TRUE])

SetVisible(b) ==
    /\ tile.isVisible # b
    /\ Environment([tile EXCEPT !.isVisible = b])

TileDisposed ==
    /\ ~tile.disposed
    /\ Environment([tile EXCEPT !.disposed = TRUE])

SetDetached(b) ==
    /\ tile.detached # b
    /\ Environment([tile EXCEPT !.detached = b])

\* set priority(value)
SetPriority(value) ==
    /\ m_priority # value
    /\ Apply([World(FALSE) EXCEPT !.m_priority = value],
             Op("priority", Undefined, Undefined))

Next ==
    \/ \E c \in KindConfigs, stats \in BOOLEAN : Update(c[1], c[2], stats)
    \/ Reset
    \/ Dispose
    \/ \E c \in KindConfigs, stats \in BOOLEAN : ProcessNext(Task(c[1], c[2]), stats)
    \/ \E c \in KindConfigs, stats \in BOOLEAN : InvokeExecute(Task(c[1], c[2]), stats)
    \/ \E p \in Payloads : PayloadArrival(p)
    \/ LoaderFinished
    \/ \E b \in BOOLEAN : SetVisible(b)
    \/ TileDisposed
    \/ \E b \in BOOLEAN : SetDetached(b)

Spec == Init /\ [][Next]_vars

\* The loader with an owner that also sets its priority: the methods of the
\* loader, the queue, payloads arriving and the tile leaving and entering the
\* view.
NextPriority ==
    \/ \E c \in KindConfigs, stats \in BOOLEAN : Update(c[1], c[2], stats)
    \/ Reset
    \/ Dispose
    \/ \E c \in KindConfigs, stats \in BOOLEAN : ProcessNext(Task(c[1], c[2]), stats)
    \/ \E p \in Payloads : PayloadArrival(p)
    \/ \E b \in BOOLEAN : SetVisible(b)
    \/ \E value \in Priorities : SetPriority(value)

SpecPriority == Init /\ [][NextPriority]_vars

\* The kind sets and configurations the comparison is exercised with: undefined
\* and every set over the first MaxKinds geometry kinds.
ComparedKinds == {KindOrder[i] : i \in 1..MaxKinds}
ComparedSets == {Undefined} \cup {GeometryKindSet(S) : S \in SUBSET ComparedKinds}
ComparedConfigs == ComparedSets \X ComparedSets

\* setGeometryKinds(enabledKinds, disabledKinds) records a configuration.
SetGeometryKinds(enabledKinds, disabledKinds) ==
    Apply(setGeometryKinds(World(FALSE), enabledKinds, disabledKinds),
          Op("setGeometryKinds", enabledKinds, disabledKinds))

\* compareGeometryKinds(enabledKinds, disabledKinds) is asked; it changes
\* nothing, its answer is kept with the step.
CompareGeometryKinds(enabledKinds, disabledKinds) ==
    Apply(World(FALSE),
          Op(IF compareGeometryKinds(World(FALSE), enabledKinds, disabledKinds)
             THEN "compareGeometryKinds: true"
             ELSE "compareGeometryKinds: false",
             enabledKinds, disabledKinds))

\* The stored kind configuration on its own: recorded, compared and reset.
NextKinds ==
    \/ \E c \in ComparedConfigs : SetGeometryKinds(c[1], c[2])
    \/ \E c \in ComparedConfigs : CompareGeometryKinds(c[1], c[2])
    \/ Reset

SpecKinds == Init /\ [][NextKinds]_vars

\* compareGeometryKinds as a function of four sets: the two stored sets are
\* drawn from every value their type (GeometryKindSet | undefined) admits, the
\* two arguments from the same values, and the comparison is asked.
InitCompare ==
    /\ m_decodedTile = NoPayload
    /\ m_isFinished = FALSE
    /\ m_availableGeometryKinds = Undefined
    /\ m_enabledKinds \in ComparedSets
    /\ m_disabledKinds \in ComparedSets
    /\ m_priority = 0
    /\ tile = [isVisible |-> TRUE, disposed |-> FALSE, decodedTile |-> NoPayload,
               loaderFinished |-> FALSE, detached |-> FALSE]
    /\ techniques = [p \in Payloads |-> [j \in 1..TechniquesPerPayload |-> DecodedKind(p, j)]]
    /\ taskQueue = EmptyBag
    /\ calls = ZeroCalls
    /\ op = Op("init", Undefined, Undefined)
    /\ omvDataSource = NewOmvDataSource(<<>>, <<>>)

NextCompare == \E c \in ComparedConfigs : CompareGeometryKinds(c[1], c[2])

\* The loader polled with one unchanged kind configuration, (undefined,
\* undefined), the queue, and the environment of the tile.  update() is called
\* again and again, and the queue considers every task it holds: both are
\* weakly fair.  A call that changes nothing is a stuttering step.
NextLive ==
    \/ \E stats \in BOOLEAN : Update(Undefined, Undefined, stats)
    \/ \E stats \in BOOLEAN : ProcessNext(Task(Undefined, Undefined), stats)
    \/ \E p \in Payloads : PayloadArrival(p)
    \/ LoaderFinished
    \/ \E b \in BOOLEAN : SetVisible(b)
    \/ TileDisposed
    \/ \E b \in BOOLEAN : SetDetached(b)

SpecLive ==
    /\ Init
    /\ [][NextLive]_vars
    /\ WF_vars(\E stats \in BOOLEAN : Update(Undefined, Undefined, stats))
    /\ WF_vars(\E stats \in BOOLEAN : ProcessNext(Task(Undefined, Undefined), stats))

SpecCompare == InitCompare /\ [][NextCompare]_vars

\* Classification on its own.  Enough payloads to hold a technique of every
\* name, and the kinds their techniques were decoded with: in variant 1 no
\* technique declares a kind, in the others the declared kinds rotate over
\* absent, single kinds, raw arrays (with a repeated member, empty, of one
\* member) and kind sets.
ClassifiedPayloads ==
    1..((Len(TechniqueNames) + TechniquesPerPayload - 1) \div TechniquesPerPayload)

DeclaredKinds ==
    <<KindUndefined, KindArray(<<"label", "area", "label">>), KindSingle("building"),
      KindOfSet({"line", "all"}), KindArray(<<>>), KindArray(<<"area">>), KindSingle("all")>>

ClassifiedKind(v, i) ==
    IF v = 1 THEN KindUndefined ELSE DeclaredKinds[((i + v) % Len(DeclaredKinds)) + 1]

InitClassify ==
    /\ m_decodedTile = NoPayload
    /\ m_isFinished = FALSE
    /\ m_availableGeometryKinds = Undefined
    /\ m_enabledKinds = Undefined
    /\ m_disabledKinds = Undefined
    /\ m_priority = 0
    /\ tile = [isVisible |-> TRUE, disposed |-> FALSE, decodedTile |-> NoPayload,
               loaderFinished |-> FALSE, detached |-> FALSE]
    /\ \E v \in 1..NumVariants :
          techniques = [p \in ClassifiedPayloads |->
                           [j \in 1..TechniquesPerPayload |->
                               ClassifiedKind(v, TechniqueIndex(p, j))]]
    /\ taskQueue = EmptyBag
    /\ calls = ZeroCalls
    /\ op = Op("init", Undefined, Undefined)
    /\ omvDataSource = NewOmvDataSource(<<>>, <<>>)

\* compileGeometryKind(technique) on technique j of payload p: technique.kind
\* is written back.
CompileGeometryKind(p, j) ==
    Apply([World(FALSE) EXCEPT
              !.techniques[p][j] = compileGeometryKind(TechniqueName(p, j), @)],
          Op("compileGeometryKind", Undefined, Undefined))

\* setDecodedTile(decodedTile) with payload p.
SetDecodedTile(p) ==
    Apply(setDecodedTile(World(FALSE), p), Op("setDecodedTile", Undefined, Undefined))

NextClassify ==
    \/ \E p \in ClassifiedPayloads, j \in 1..TechniquesPerPayload : CompileGeometryKind(p, j)
    \/ \E p \in ClassifiedPayloads : SetDecodedTile(p)

SpecClassify == InitClassify /\ [][NextClassify]_vars

\* The data source on its own.  It is constructed with or without the
\* enableElevationOverlay and storageLevelOffset parameters; its methods are
\* called in any order, tiles enter its cache, and the dirty tiles are redrawn.
LevelOffsets == (0 - MaxLevelOffset)..MaxLevelOffset
LanguageLists == {<<>>, <<<<"en">>>>}

InitOmv ==
    /\ m_decodedTile = NoPayload
    /\ m_isFinished = FALSE
    /\ m_availableGeometryKinds = Undefined
    /\ m_enabledKinds = Undefined
    /\ m_disabledKinds = Undefined
    /\ m_priority = 0
    /\ tile = [isVisible |-> TRUE, disposed |-> FALSE, decodedTile |-> NoPayload,
               loaderFinished |-> FALSE, detached |-> FALSE]
    /\ techniques = [p \in Payloads |-> [j \in 1..TechniquesPerPayload |-> DecodedKind(p, j)]]
    /\ taskQueue = EmptyBag
    /\ calls = ZeroCalls
    /\ op = Op("init", Undefined, Undefined)
    /\ \E enable \in {<<>>, <<TRUE>>, <<FALSE>>},
          levelOffset \in {<<>>} \cup {<<n>> : n \in LevelOffsets} :
          omvDataSource = NewOmvDataSource(enable, levelOffset)

\* A method of the data source: calls lists the calls of this method only.
Called == [omvDataSource EXCEPT !.calls = <<>>]
DataSourceStep(d, name) ==
    Apply([World(FALSE) EXCEPT !.omvDataSource = d, !.calls = calls],
          Op(name, Undefined, Undefined))

Connect == DataSourceStep(connect(Called), "connect")

RemoveDataFilter == DataSourceStep(removeDataFilter(Called), "removeDataFilter")

SetLanguages(languages) ==
    DataSourceStep(setLanguages(Called, languages), "setLanguages")

SetStorageLevelOffset(levelOffset) ==
    DataSourceStep(setStorageLevelOffset(Called, levelOffset), "storageLevelOffset")

SetEnableElevationOverlay(enable) ==
    DataSourceStep(setEnableElevationOverlay(Called, enable),
                   IF enable THEN "setEnableElevationOverlay(true)"
                             ELSE "setEnableElevationOverlay(false)")

\* A decoded tile enters the cache of the data source.
TileCached ==
    /\ omvDataSource.cachedTiles < MaxCachedTiles
    /\ Apply([World(FALSE) EXCEPT !.omvDataSource.cachedTiles = @ + 1, !.calls = calls], op)

\* The map view has redrawn the tiles that were marked dirty.
TilesRedrawn ==
    /\ omvDataSource.tilesDirty
    /\ Apply([World(FALSE) EXCEPT !.omvDataSource.tilesDirty = FALSE, !.calls = calls], op)

NextOmv ==
    \/ Connect
    \/ RemoveDataFilter
    \/ \E languages \in LanguageLists : SetLanguages(languages)
    \/ \E levelOffset \in LevelOffsets : SetStorageLevelOffset(levelOffset)
    \/ \E enable \in BOOLEAN : SetEnableElevationOverlay(enable)
    \/ TileCached
    \/ TilesRedrawn

SpecOmv == InitOmv /\ [][NextOmv]_vars

----------------------------------------------------------------------------
\* Properties

\* The fields of the loader.
loader == <<m_decodedTile, m_isFinished, m_availableGeometryKinds, m_enabledKinds,
            m_disabledKinds, m_priority>>

\* The last step of the loader was an update() that added a task to the queue;
\* no task has been run or dropped and no reset() or dispose() was made since.
JustSubmitted == op.name = "update" /\ calls.add = 1

\* C1: at most one build task of the loader is outstanding in the queue.
C1_SingleOutstandingTask == BagCardinality(taskQueue) <= 1

\* C2: after an update(E, D) that submitted a task, a second update(E, D) on the
\* still visible, not disposed tile, made before any task ran, submits no
\* task and makes no reset: payload, availableKinds and stored sets stay.
C2_RepeatedUpdateIsQuiet ==
    [][\A c \in KindConfigs, stats \in BOOLEAN :
          (/\ JustSubmitted
           /\ op.enabled = c[1] /\ op.disabled = c[2]
           /\ tile.isVisible /\ ~tile.disposed
           /\ Update(c[1], c[2], stats))
          => /\ calls'.add = 0
             /\ calls'.reset = 0
             /\ taskQueue' = taskQueue
             /\ UNCHANGED <<m_decodedTile, m_availableGeometryKinds,
                            m_enabledKinds, m_disabledKinds>>]_vars

\* C3: update() on a finished loader changes no field of the loader, submits
\* no task and calls neither the tile, the registry nor the geometry creator.
C3_UpdateWhenFinishedIsNoOp ==
    [][\A c \in KindConfigs, stats \in BOOLEAN :
          (m_isFinished /\ Update(c[1], c[2], stats))
          => /\ UNCHANGED <<loader, tile, techniques, taskQueue>>
             /\ calls' = ZeroCalls]_vars

\* An update() has found the loader finished.
C3_Witness == op.name = "update" /\ m_isFinished /\ calls = ZeroCalls

\* Two kind sets are logically equal on one axis: both are empty or undefined,
\* or both are non-empty with the same members.
LogicallyEqual(stored, arg) ==
    \/ (~stored.def \/ stored.elems = {}) /\ (~arg.def \/ arg.elems = {})
    \/ stored.def /\ arg.def /\ stored.elems # {} /\ stored.elems = arg.elems

C5_InvisibleTileIsDiscarded ==
    [][\A c \in KindConfigs, stats \in BOOLEAN :
          (~m_isFinished /\ ~tile.isVisible /\ Update(c[1], c[2], stats))
          => /\ m_isFinished'
             /\ calls'.disposeTile = 1
             /\ calls'.add = 0
             /\ taskQueue' = taskQueue]_vars

\* An update() has discarded an invisible tile.
C5_Witness ==
    op.name = "update" /\ calls.disposeTile = 1 /\ m_isFinished /\ calls.add = 0

\* The discard check runs on a visible, disposed tile: in update() of a loader
\* that is not finished, in the task action of a loader that holds a payload.
DiscardCheckOnDisposed(step) ==
    /\ tile.isVisible /\ tile.disposed
    /\ step

\* C6 as claimed: a visible, disposed tile is discarded like an invisible one:
\* disposeTile is called, the loader finishes, nothing is submitted or built.
C6_DisposedTileIsDetached ==
    [][\A c \in KindConfigs, stats \in BOOLEAN :
          (\/ DiscardCheckOnDisposed(~m_isFinished /\ Update(c[1], c[2], stats))
           \/ DiscardCheckOnDisposed(m_decodedTile # NoPayload
                                        /\ Execute(Task(c[1], c[2]), stats)))
          => /\ calls'.disposeTile = 1
             /\ m_isFinished'
             /\ calls'.add = 0
             /\ calls'.createAllGeometries = 0]_vars

\* C6 as amended: a visible, disposed tile is discarded without a call of
\* disposeTile: the loader finishes (the tile is told loadingFinished and
\* removeDecodedTile), nothing is submitted and no geometry is created.
C6_DisposedTileIsDiscarded ==
    [][\A c \in KindConfigs, stats \in BOOLEAN :
          (\/ DiscardCheckOnDisposed(~m_isFinished /\ Update(c[1], c[2], stats))
           \/ DiscardCheckOnDisposed(m_decodedTile # NoPayload
                                        /\ Execute(Task(c[1], c[2]), stats)))
          => /\ calls'.disposeTile = 0
             /\ m_isFinished'
             /\ calls'.loadingFinished = 1
             /\ calls'.removeDecodedTile = 1
             /\ calls'.add = 0
             /\ taskQueue' \sqsubseteq taskQueue
             /\ calls'.clear = 0
             /\ calls'.createAllGeometries = 0]_vars

\* A step of the loader has discarded a visible, disposed tile.
C6_Witness ==
    /\ tile.isVisible /\ tile.disposed
    /\ op.name \in {"update", "execute"}
    /\ m_isFinished
    /\ calls.loadingFinished = 1 /\ calls.disposeTile = 0
    /\ calls.createAllGeometries = 0

\* C7: update(undefined, undefined) on an idle loader whose visible tile holds
\* a decoded payload submits exactly one task; the action of that task, run
\* while the tile is visible and not disposed, calls createAllGeometries once
\* and leaves the loader finished without a payload.
C7_BuildEndToEnd ==
    [][\A stats \in BOOLEAN :
          /\ (/\ ~m_isFinished /\ m_decodedTile = NoPayload
               /\ tile.isVisible /\ ~tile.disposed /\ tile.decodedTile # NoPayload
               /\ Update(Undefined, Undefined, stats))
              => /\ calls'.add = 1
                 /\ taskQueue' = taskQueue (+) SetToBag({Task(Undefined, Undefined)})
                 /\ m_decodedTile' = tile.decodedTile
          /\ (/\ JustSubmitted
               /\ op.enabled = Undefined /\ op.disabled = Undefined
               /\ tile.isVisible /\ ~tile.disposed
               /\ Execute(Task(Undefined, Undefined), stats))
              => /\ calls'.createAllGeometries = 1
                 /\ m_isFinished'
                 /\ m_decodedTile' = NoPayload]_vars

\* The task action has built the geometry and finished the loader.
C7_Witness ==
    /\ op.name = "execute" /\ calls.createAllGeometries = 1
    /\ m_isFinished /\ m_decodedTile = NoPayload

\* C8: the tile became invisible after the submission; the task action then
\* takes the discard path: no tile.clear, no createAllGeometries, and the
\* loader is finished.
C8_DiscardEndToEnd ==
    [][\A c \in KindConfigs, stats \in BOOLEAN :
          (/\ JustSubmitted
           /\ ~tile.isVisible
           /\ Execute(Task(c[1], c[2]), stats))
          => /\ calls'.createAllGeometries = 0
             /\ calls'.clear = 0
             /\ calls'.disposeTile = 1
             /\ m_isFinished']_vars

\* The task action has discarded a tile that is not visible.
C8_Witness ==
    /\ op.name = "execute" /\ calls.disposeTile = 1
    /\ calls.createAllGeometries = 0 /\ m_isFinished

\* C9: a task action that runs while the tile is invisible or disposed makes
\* none of tile.clear, initDecodedTile and createAllGeometries.
C9_NoGeometryForStaleTile ==
    [][\A c \in KindConfigs, stats \in BOOLEAN :
          ((~tile.isVisible \/ tile.disposed) /\ Execute(Task(c[1], c[2]), stats))
          => /\ calls'.clear = 0
             /\ calls'.initDecodedTile = 0
             /\ calls'.createAllGeometries = 0]_vars

\* The task action ran on a stale tile while the loader held a payload.
C9_Witness ==
    /\ op.name = "execute" /\ (~tile.isVisible \/ tile.disposed)
    /\ calls.loadingFinished = 1 /\ calls.clear = 0
    /\ (calls.disposeTile = 1 \/ calls.addMessage = 1)

\* C10: a task submitted before reset() has no effect when it is invoked after
\* the reset: no geometry is created and no field of the loader changes.
C10_ResetCancelsTask ==
    [][\A c \in KindConfigs, stats \in BOOLEAN :
          (op.name = "reset" /\ Execute(Task(c[1], c[2]), stats))
          => /\ calls'.createAllGeometries = 0
             /\ UNCHANGED loader]_vars

\* C11: in every reachable state a finished loader holds no decoded payload.
C11_FinishedHoldsNoPayload == m_isFinished => m_decodedTile = NoPayload

\* The loader is finished while the tile has a decoded payload again: the
\* payload is with the tile, the loader does not hold it.
C11_Witness ==
    m_isFinished /\ m_decodedTile = NoPayload /\ tile.decodedTile # NoPayload

\* C12: a task action invoked while the loader holds no payload (after a
\* reset() or dispose(), or with the loader finished already) does not clear
\* the tile, sets up and creates no geometry, requests no update, and leaves
\* the loader finished without a payload.
C12_NoPayloadShortCircuits ==
    [][\A c \in KindConfigs, stats \in BOOLEAN :
          (m_decodedTile = NoPayload /\ Execute(Task(c[1], c[2]), stats))
          => /\ calls'.clear = 0
             /\ calls'.initDecodedTile = 0
             /\ calls'.createAllGeometries = 0
             /\ calls'.requestUpdate = 0
             /\ calls'.add = 0
             /\ m_isFinished'
             /\ m_decodedTile' = NoPayload]_vars

\* The task action found no payload: it finished the loader of a tile that
\* was never disposed, without the discard path and without a build.
C12_Witness ==
    /\ op.name = "execute" /\ ~tile.disposed
    /\ calls.disposeTile = 0 /\ calls.createAllGeometries = 0
    /\ calls.loadingFinished = 1 /\ m_isFinished

\* A step that takes the loader from not finished to finished tells the tile
\* loadingFinished and removeDecodedTile once each.
FinishingNotifiesOnce ==
    [][(~m_isFinished /\ m_isFinished')
          => calls'.loadingFinished = 1 /\ calls'.removeDecodedTile = 1]_vars

\* A step of a loader that is finished already does not tell the tile again.
FinishedIsNotNotifiedAgain ==
    [][\A c \in KindConfigs, stats \in BOOLEAN :
          (m_isFinished /\ (Update(c[1], c[2], stats) \/ Execute(Task(c[1], c[2]), stats)))
          => calls'.loadingFinished = 0 /\ calls'.removeDecodedTile = 0]_vars

\* C13: every transition into finished notifies the tile (loadingFinished and
\* removeDecodedTile) exactly once, and the tile is not notified again while
\* the loader stays finished.
C13_NotifiedExactlyOnce == FinishingNotifiesOnce /\ FinishedIsNotNotifiedAgain

\* C14: geometry is created only with the kind sets of the update() that began
\* the current cycle.  In a JustSubmitted state that update() is the one in
\* op; prepare() hands the kind sets bound in its task to initDecodedTile
\* right before createAllGeometries, so a task action that creates geometry
\* must be the one bound to op.enabled and op.disabled.
C14_NoBuildWithSupersededKinds ==
    [][\A c \in KindConfigs, stats \in BOOLEAN :
          (/\ JustSubmitted
           /\ Execute(Task(c[1], c[2]), stats)
           /\ calls'.createAllGeometries = 1)
          => /\ calls'.initDecodedTile = 1
             /\ c[1] = op.enabled /\ c[2] = op.disabled]_vars

\* C15: update() on a loader that is not finished, with the tile visible and
\* not disposed, the tile loader finished and no decoded payload on the tile,
\* finishes the loader and submits nothing.  With a payload pending in the
\* loader the rule does not apply: update() leaves the build pending (the same
\* one, or after a kind change a resubmitted one) and does not finish.
C15_NoDataFinishes ==
    [][\A c \in KindConfigs, stats \in BOOLEAN :
          LET live == ~m_isFinished /\ tile.isVisible /\ ~tile.disposed
                         /\ tile.loaderFinished
          IN /\ (live /\ tile.decodedTile = NoPayload /\ Update(c[1], c[2], stats))
                  => /\ m_isFinished'
                     /\ calls'.loadingFinished = 1
                     /\ calls'.processTechniques = 0
                     /\ calls'.add = 0
                     /\ taskQueue' = taskQueue
             /\ (live /\ m_decodedTile # NoPayload /\ Update(c[1], c[2], stats))
                  => /\ ~m_isFinished'
                     /\ m_decodedTile' # NoPayload
                     /\ calls'.loadingFinished = 0
                     /\ taskQueue \sqsubseteq taskQueue']_vars

\* An update() has finished the loader of a tile that is not disposed, without
\* the discard of an invisible tile: the tile loader had nothing to deliver.
C15_Witness ==
    /\ op.name = "update" /\ m_isFinished /\ ~tile.disposed
    /\ calls.disposeTile = 0 /\ calls.loadingFinished = 1 /\ calls.add = 0

\* A payload held by the loader is also the tile's: the tile loses its payload
\* only through finish(), which clears the loader's as well.
HeldPayloadIsWithTile == m_decodedTile # NoPayload => tile.decodedTile # NoPayload

\* C16: when the queue considers a task, the task is expired exactly when the
\* tile is not visible or its data source is detached at that moment.  An
\* expired task is dropped: it leaves the queue, its action is not invoked, no
\* geometry is created and the loader is left as it was.  A task that is not
\* expired at that moment has its action invoked.
C16_ExpiredTaskIsDropped ==
    [][\A c \in KindConfigs, stats \in BOOLEAN :
          ProcessNext(Task(c[1], c[2]), stats)
          => /\ isExpired(World(stats)) = (~tile.isVisible \/ tile.detached)
             /\ taskQueue' = Pulled(Task(c[1], c[2]))
             /\ IF ~tile.isVisible \/ tile.detached
                THEN /\ op'.name = "drop"
                     /\ calls' = ZeroCalls
                     /\ UNCHANGED <<loader, tile, techniques>>
                ELSE op'.name = "execute"]_vars

\* The queue has dropped a task of a visible tile whose data source is
\* detached, and the loader still holds the payload the task was to build.
C16_Witness ==
    /\ op.name = "drop" /\ tile.isVisible /\ tile.detached
    /\ ~m_isFinished /\ m_decodedTile # NoPayload

\* C17: the priority the queue reads from a waiting task is the loader's
\* priority at the time of the read: when the owner sets the priority, every
\* task in the queue answers getPriority with the new value right away, and
\* nothing was submitted again.
C17_PriorityIsReadDynamically ==
    [][\A value \in Priorities :
          SetPriority(value)
          => /\ taskQueue' = taskQueue
             /\ calls'.add = 0
             /\ \A t \in BagToSet(taskQueue') :
                   TaskGetPriority(t, World(FALSE))' = value]_vars

\* The owner has set a new priority while a task of the loader waits.
C17_Witness ==
    /\ op.name = "priority" /\ taskQueue # EmptyBag
    /\ m_priority # 0 /\ ~m_isFinished

\* A kind set has no members: it is undefined or an empty set.
NoKinds(s) == s.elems = {}

\* C18: reset(), whatever the state it is called in, leaves the loader not
\* finished, without a payload, with no available, enabled or disabled kinds,
\* and with the priority it had.
C18_ResetReturnsToIdle ==
    [][Reset
          => /\ ~m_isFinished'
             /\ m_decodedTile' = NoPayload
             /\ NoKinds(m_availableGeometryKinds')
             /\ NoKinds(m_enabledKinds')
             /\ NoKinds(m_disabledKinds')
             /\ m_priority' = m_priority]_vars

\* reset() was called on a loader with a raised priority that has had a
\* payload and a kind configuration, while a task of it waits in the queue.
C18_Witness ==
    /\ op.name = "reset" /\ calls.reset = 1
    /\ ~m_isFinished /\ m_decodedTile = NoPayload
    /\ m_availableGeometryKinds = GeometryKindSet({})
    /\ m_enabledKinds = GeometryKindSet({})
    /\ m_priority # 0 /\ taskQueue # EmptyBag

\* C19: dispose(), whatever the state it is called in, releases the payload
\* the loader holds and leaves finished, the stored kind sets, the available
\* kinds and the priority as they were.
C19_DisposeReleasesPayloadOnly ==
    [][Dispose
          => /\ m_decodedTile' = NoPayload
             /\ UNCHANGED <<m_isFinished, m_enabledKinds, m_disabledKinds,
                            m_availableGeometryKinds, m_priority>>]_vars

\* dispose() was called on a loader that held a payload (its available kinds
\* are still those of the payload) and had a raised priority.
C19_Witness ==
    /\ op.name = "dispose" /\ m_decodedTile = NoPayload /\ ~m_isFinished
    /\ m_availableGeometryKinds.def /\ m_availableGeometryKinds.elems # {}
    /\ m_priority # 0

\* C20: the comparison is reflexive: right after setGeometryKinds(E, D) has
\* recorded a configuration, compareGeometryKinds(E, D) answers true, for
\* every E and D.
C20_CompareIsReflexive ==
    [][\A c \in ComparedConfigs :
          SetGeometryKinds(c[1], c[2])
          => compareGeometryKinds(World(FALSE), c[1], c[2])']_vars

\* The part of C20 that the code keeps: a configuration without members on
\* either axis (undefined or empty) compares equal to itself once recorded.
CompareIsReflexiveWithoutMembers ==
    [][\A c \in ComparedConfigs :
          (NoKinds(c[1]) /\ NoKinds(c[2]) /\ SetGeometryKinds(c[1], c[2]))
          => compareGeometryKinds(World(FALSE), c[1], c[2])']_vars

\* On one axis exactly one of the stored and the new set has members; the
\* other is undefined or empty.
OneSidedAxis(stored, arg) == NoKinds(stored) # NoKinds(arg)

\* C21: the comparison answers false whenever, on the enabled or on the
\* disabled axis, exactly one of the stored and the new set has members,
\* whatever the other axis.
C21_CompareSeesOneSidedAxis ==
    [][\A c \in ComparedConfigs :
          (/\ OneSidedAxis(m_enabledKinds, c[1]) \/ OneSidedAxis(m_disabledKinds, c[2])
           /\ CompareGeometryKinds(c[1], c[2]))
          => op'.name = "compareGeometryKinds: false"]_vars

\* The comparison has answered false for a new enabled set with members
\* against a stored empty one, the disabled axis being undefined on both sides.
C21_Witness ==
    /\ op.name = "compareGeometryKinds: false"
    /\ m_enabledKinds = GeometryKindSet({}) /\ ~NoKinds(op.enabled)
    /\ m_disabledKinds = Undefined /\ op.disabled = Undefined

\* The same for stored sets of any content, which the loader itself never
\* gets to hold: compareGeometryKinds as a function of the four sets.
CompareSeesOneSidedAxisForAnyStored ==
    \A st \in ComparedConfigs, c \in ComparedConfigs :
        (OneSidedAxis(st[1], c[1]) \/ OneSidedAxis(st[2], c[2]))
        => ~compareGeometryKinds([World(FALSE) EXCEPT !.m_enabledKinds = st[1],
                                                      !.m_disabledKinds = st[2]],
                                 c[1], c[2])

\* An axis matches: the stored and the new set are the same reference, or both
\* are undefined or empty, or both have members and the members are the same.
AxisMatches(stored, arg) ==
    \/ SameReference(stored, arg)
    \/ NoKinds(stored) /\ NoKinds(arg)
    \/ ~NoKinds(stored) /\ ~NoKinds(arg) /\ stored.elems = arg.elems

C23_StoredKindsAccumulate ==
    [][\A c \in KindConfigs, stats \in BOOLEAN :
          (Update(c[1], c[2], stats) /\ calls'.add = 1)
          => /\ c[1].elems \subseteq m_enabledKinds'.elems
             /\ c[2].elems \subseteq m_disabledKinds'.elems
             /\ calls'.reset = 0
                  => /\ m_enabledKinds.elems \subseteq m_enabledKinds'.elems
                     /\ m_disabledKinds.elems \subseteq m_disabledKinds'.elems]_vars

\* C24: compileGeometryKind is idempotent.  A call on a technique without a
\* declared kind writes back one GeometryKind; a call on a technique with a
\* raw array writes back a set with the members of the array; a call on the
\* technique as it is after any call answers the same and writes nothing.
C24_CompileIsIdempotent ==
    [][\A p \in ClassifiedPayloads, j \in 1..TechniquesPerPayload :
          CompileGeometryKind(p, j)
          => LET before == techniques[p][j]
                 after == techniques'[p][j]
             IN /\ before.tag = "undefined" => after.tag = "kind"
                /\ before.tag = "array"
                     => after.tag = "set" /\ after.set = ArrayElems(before.arr)
                /\ compileGeometryKind(TechniqueName(p, j), after) = after
                /\ before.tag \in {"kind", "set"} => after = before]_vars

\* A technique decoded with a raw array of kinds holds a kind set after
\* compileGeometryKind, and one decoded without a kind holds its default.
C24_Witness ==
    /\ op.name = "compileGeometryKind"
    /\ \E p \in ClassifiedPayloads, j \in 1..TechniquesPerPayload :
          techniques[p][j] = KindOfSet({"label", "area"})
    /\ \E p \in ClassifiedPayloads, j \in 1..TechniquesPerPayload :
          techniques[p][j] = KindSingle(DefaultKind(TechniqueName(p, j)))

\* C25: compileGeometryKind on a technique without a declared kind writes the
\* default of its type into the technique: fill gives area; line, solid-line,
\* segments and extruded-line give line; extruded-polygon gives building;
\* labeled-icon (POI), line-marker and text give label; any other type gives
\* all.
C25_DefaultKindByTechniqueType ==
    [][\A p \in ClassifiedPayloads, j \in 1..TechniquesPerPayload :
          (techniques[p][j] = KindUndefined /\ CompileGeometryKind(p, j))
          => LET name == TechniqueName(p, j)
                 kind == techniques'[p][j]
             IN /\ kind.tag = "kind"
                /\ name = "fill" => kind.kind = "area"
                /\ name = "line" => kind.kind = "line"
                /\ name = "solid-line" => kind.kind = "line"
                /\ name = "segments" => kind.kind = "line"
                /\ name = "extruded-line" => kind.kind = "line"
                /\ name = "extruded-polygon" => kind.kind = "building"
                /\ name = "labeled-icon" => kind.kind = "label"
                /\ name = "line-marker" => kind.kind = "label"
                /\ name = "text" => kind.kind = "label"
                /\ name \notin {"fill", "line", "solid-line", "segments", "extruded-line",
                                "extruded-polygon", "labeled-icon", "line-marker", "text"}
                     => kind.kind = "all"]_vars

\* Every technique of every payload, none of which declared a kind, has been
\* compiled: a technique of each type holds its default.
C25_Witness ==
    /\ op.name = "compileGeometryKind"
    /\ \A p \in ClassifiedPayloads, j \in 1..TechniquesPerPayload :
          techniques[p][j].tag = "kind"
    /\ \A n \in {"fill", "text", "squares", "extruded-polygon", "segments"} :
          \E p \in ClassifiedPayloads, j \in 1..TechniquesPerPayload :
              TechniqueName(p, j) = n

\* The orderings of the techniques of one payload.
TechniqueOrders ==
    {f \in [1..TechniquesPerPayload -> 1..TechniquesPerPayload] :
        \A i, j \in 1..TechniquesPerPayload : f[i] = f[j] => i = j}

\* The kinds one technique stands for: its kind once classified, or the
\* members of that kind when it is a set.
ClassifiedKinds(t) ==
    LET k == compileGeometryKind(t.name, t.kind)
    IN IF k.tag = "set" THEN k.set ELSE {k.kind}

\* C26: prepareAvailableGeometryKinds returns the set whose members are
\* exactly the kinds of the payload's techniques, single kinds as members and
\* kind sets flattened, and the loop gives the same set for every ordering of
\* the techniques.
C26_AvailableKindsIsUnion ==
    [][\A p \in ClassifiedPayloads :
          SetDecodedTile(p)
          => LET ts == TechniquesOf(techniques, p) IN
             /\ m_availableGeometryKinds'.def
             /\ m_availableGeometryKinds'.elems
                   = UNION {ClassifiedKinds(ts[j]) : j \in 1..TechniquesPerPayload}
             /\ \A f \in TechniqueOrders :
                   GatherKinds([j \in 1..TechniquesPerPayload |-> ts[f[j]]], {})
                      = m_availableGeometryKinds'.elems]_vars

\* setDecodedTile has gathered the kinds of a payload whose techniques stand
\* for three kinds or more, so at least one of them brought a kind set.
C26_Witness ==
    /\ op.name = "setDecodedTile" /\ m_decodedTile # NoPayload
    /\ Cardinality(m_availableGeometryKinds.elems) > TechniquesPerPayload

\* A world without what the statistics recorder got: its enabled flag and the
\* values and messages it was given.
WithoutStatistics(w) ==
    [w EXCEPT !.statsEnabled = FALSE, !.calls.addValue = 0, !.calls.addMessage = 0]

\* C27: in every reachable state, each step of the loader (update() with any
\* kind sets, the action of any waiting task) and the expiry test come out the
\* same with the statistics recorder enabled and disabled, but for the calls
\* to the recorder: the same fields, the same queue, the same calls to the
\* tile, the visible tile set, the data source and the geometry creator.  No
\* method reads what the recorder was given, so two runs that differ in the
\* recorder only stay in step.
C27_StatisticsAreSideChannel ==
    /\ \A c \in KindConfigs :
          WithoutStatistics(update(World(TRUE), c[1], c[2]))
             = WithoutStatistics(update(World(FALSE), c[1], c[2]))
    /\ \A t \in BagToSet(taskQueue) :
          WithoutStatistics(prepare([World(TRUE) EXCEPT !.taskQueue = Pulled(t)],
                                    t.enabled, t.disabled))
             = WithoutStatistics(prepare([World(FALSE) EXCEPT !.taskQueue = Pulled(t)],
                                         t.enabled, t.disabled))
    /\ isExpired(World(TRUE)) = isExpired(World(FALSE))
    /\ reset(World(TRUE)) = [reset(World(FALSE)) EXCEPT !.statsEnabled = TRUE]
    /\ dispose(World(TRUE)) = [dispose(World(FALSE)) EXCEPT !.statsEnabled = TRUE]

\* A task action has built geometry with the recorder enabled: the seven
\* values and the message were recorded.
C27_Witness ==
    /\ op.name = "execute" /\ calls.createAllGeometries = 1
    /\ calls.addValue = 7 /\ calls.addMessage = 1 /\ calls.requestUpdate = 1

\* C28: finished is terminal until reset: a step that takes the loader from
\* finished to not finished is a reset(); update(), dispose(), a new priority,
\* the queue running or dropping a task and the tile's environment leave a
\* finished loader finished.
C28_FinishedUntilReset ==
    [][(m_isFinished /\ ~m_isFinished') => Reset]_vars

\* dispose() was called on a finished loader whose priority had been set: it
\* is still finished.
C28_Witness ==
    op.name = "dispose" /\ m_isFinished /\ m_priority # 0

C30_PendingEventuallyFinishes ==
    (m_decodedTile # NoPayload /\ ~m_isFinished) ~> m_isFinished

\* Why C30 fails: once the queue has dropped the task of a pending loader,
\* update() with the unchanged configuration on the visible, not disposed tile
\* does nothing at all, whether the data source is attached again or not.
DroppedTaskIsNotResubmitted ==
    (/\ m_decodedTile # NoPayload /\ ~m_isFinished /\ taskQueue = EmptyBag
     /\ tile.isVisible /\ ~tile.disposed)
    => \A stats \in BOOLEAN :
          update(World(stats), Undefined, Undefined) = World(stats)

\* The loader is pending with no task left in the queue, on a visible tile
\* whose data source is attached.
PendingWithoutTask ==
    /\ m_decodedTile # NoPayload /\ ~m_isFinished /\ taskQueue = EmptyBag
    /\ tile.isVisible /\ ~tile.disposed /\ ~tile.detached

----------------------------------------------------------------------------
\* C31: setEnableElevationOverlay(enable) reconfigures the decoder only when
\* enable differs from the stored option: it then stores enable, clears the
\* cache, calls decoder.configure with the new option and marks the tiles of
\* the data source dirty, in that order.  Called with the value already
\* stored it changes nothing and makes none of these calls.
ReconfigurationCalls == <<"clearCache", "decoder.configure", "markTilesDirty">>

C31_OverlayReconfiguresOnlyOnChange ==
    [][\A enable \in BOOLEAN :
          SetEnableElevationOverlay(enable) =>
              IF omvDataSource.m_decoderOptions.enableElevationOverlay # enable
              THEN /\ omvDataSource'.calls = ReconfigurationCalls
                   /\ omvDataSource'.m_decoderOptions.enableElevationOverlay = enable
                   /\ omvDataSource'.cachedTiles = 0
                   /\ omvDataSource'.decoder.options =
                          <<[NoOptions EXCEPT !.enableElevationOverlay = <<enable>>]>>
                   /\ omvDataSource'.tilesDirty
              ELSE /\ omvDataSource'.calls = <<>>
                   /\ omvDataSource' = [omvDataSource EXCEPT !.calls = <<>>]
      ]_vars

\* The option is already stored, tiles are cached and drawn, and the last call
\* of the data source was setEnableElevationOverlay(true): it made no call and
\* the cache is still filled.
C31_Witness ==
    /\ op.name = "setEnableElevationOverlay(true)"
    /\ omvDataSource.m_decoderOptions.enableElevationOverlay
    /\ omvDataSource.calls = <<>>
    /\ omvDataSource.cachedTiles > 0
    /\ ~omvDataSource.tilesDirty
    /\ omvDataSource.decoder.options # <<>>

\* A call with a differing value has reconfigured the decoder.
OverlayReconfigured ==
    /\ op.name = "setEnableElevationOverlay(false)"
    /\ omvDataSource.calls = ReconfigurationCalls
    /\ ~omvDataSource.m_decoderOptions.enableElevationOverlay

====
